---- MODULE Spec2Model ----
(***************************************************************************)
(* A model of the /panchang turn of jojo.py: the command handler           *)
(* panchang_command and the functions it calls (build_api_payload,         *)
(* fetch_panchang_data, escape_markdown_v2, format_panchang_table).        *)
(*                                                                         *)
(* Python strings are sequences of one-character strings, so that parsing, *)
(* escaping, title-casing and formatting are computed character by         *)
(* character.  JSON values are tagged records (Str, Num, Null, Bool, Obj,  *)
(* List).                                                                  *)
(***************************************************************************)
EXTENDS Integers, Sequences, FiniteSets, TLC

VARIABLES
    pc,             \* position of the handler: idle, handling, fetching, formatting, done, crashed
    args,           \* context.args of the update being handled
    arrival,        \* update.message.date, the UTC clock reading [h, m, s]
    input_dt,       \* the datetime built at lines 197-204 (or NoValue)
    payload,        \* build_api_payload(input_dt) (or NoValue)
    upstream,       \* what the HTTP call produced in this turn (or NoValue)
    panchang_data,  \* the value fetch_panchang_data returned (or NoValue)
    replies,        \* the messages sent to the user in this turn, in order
    httpCalls,      \* the number of requests.request calls made in this turn
    requestsJsonErrorIsRequestException
                    \* the installed requests library: TRUE for requests >= 2.27

vars == << pc, args, arrival, input_dt, payload, upstream, panchang_data,
           replies, httpCalls, requestsJsonErrorIsRequestException >>

NoValue == [t |-> "none"]

----------------------------------------------------------------------------
(* Sequences of characters *)

Range(s) == { s[i] : i \in DOMAIN s }

\* the concatenation of a sequence of sequences, by halves
RECURSIVE Cat(_)
Cat(ss) ==
    IF Len(ss) = 0 THEN << >>
    ELSE IF Len(ss) = 1 THEN ss[1]
    ELSE LET h == Len(ss) \div 2
         IN  Cat(SubSeq(ss, 1, h)) \o Cat(SubSeq(ss, h + 1, Len(ss)))

Contains(s, sub) ==
    \E i \in 1..(Len(s) - Len(sub) + 1) : SubSeq(s, i, i + Len(sub) - 1) = sub

CountOf(s, sub) ==
    Cardinality({ i \in 1..(Len(s) - Len(sub) + 1) : SubSeq(s, i, i + Len(sub) - 1) = sub })

DigitChars == << "0", "1", "2", "3", "4", "5", "6", "7", "8", "9" >>

IsDigit(c) == c \in Range(DigitChars)

DigitVal(c) == CHOOSE d \in 0..9 : DigitChars[d + 1] = c

AllDigits(cs) == \A i \in DOMAIN cs : IsDigit(cs[i])

\* int(cs) for a non-empty string of decimal digits
RECURSIVE IntOf(_)
IntOf(cs) ==
    IF cs = << >> THEN 0
    ELSE 10 * IntOf(SubSeq(cs, 1, Len(cs) - 1)) + DigitVal(cs[Len(cs)])

\* str(n) for an integer n >= 0
RECURSIVE StrOfNat(_)
StrOfNat(n) ==
    IF n < 10 THEN << DigitChars[n + 1] >>
    ELSE StrOfNat(n \div 10) \o << DigitChars[(n % 10) + 1] >>

\* "%02d" % n
Pad2(n) == IF n < 10 THEN << "0" >> \o StrOfNat(n) ELSE StrOfNat(n)

\* s.split(sep) for a one-character separator
RECURSIVE SplitOn(_, _)
SplitOn(s, sep) ==
    IF \A i \in DOMAIN s : s[i] # sep THEN << s >>
    ELSE LET k == CHOOSE i \in DOMAIN s : s[i] = sep /\ \A j \in 1..(i - 1) : s[j] # sep
         IN  << SubSeq(s, 1, k - 1) >> \o SplitOn(SubSeq(s, k + 1, Len(s)), sep)

----------------------------------------------------------------------------
(* The calendar of datetime *)

IsLeap(y) == (y % 4 = 0) /\ ((y % 100 # 0) \/ (y % 400 = 0))

DaysInMonth(y, m) ==
    IF m = 2 THEN (IF IsLeap(y) THEN 29 ELSE 28)
    ELSE IF m \in {4, 6, 9, 11} THEN 30 ELSE 31

RECURSIVE DaysBeforeMonth(_, _)
DaysBeforeMonth(y, m) ==
    IF m = 1 THEN 0 ELSE DaysBeforeMonth(y, m - 1) + DaysInMonth(y, m - 1)

\* date.toordinal(): 0001-01-01 is day 1
ToOrdinal(y, m, d) ==
    365 * (y - 1) + ((y - 1) \div 4) - ((y - 1) \div 100) + ((y - 1) \div 400)
        + DaysBeforeMonth(y, m) + d

\* date.weekday(): Monday is 0
Weekday(y, m, d) == (ToOrdinal(y, m, d) + 6) % 7

----------------------------------------------------------------------------
(* datetime.strptime(date_str, '%d-%m-%Y'), line 193.  _strptime compiles  *)
(* the format to the regular expression                                   *)
(*   (3[0-1]|[1-2]\d|0[1-9]|[1-9]| [1-9])-(1[0-2]|0[1-9]|[1-9])-(\d\d\d\d) *)
(* which must match the whole string; no field pattern admits "-", so the  *)
(* match is a split on "-" into three fields, each in its language.  The   *)
(* date is then built by datetime, which refuses a day the month lacks.    *)

Match_d(f) ==
    \/ Len(f) = 2 /\ f[1] = "3" /\ f[2] \in {"0", "1"}
    \/ Len(f) = 2 /\ f[1] \in {"1", "2"} /\ IsDigit(f[2])
    \/ Len(f) = 2 /\ f[1] = "0" /\ IsDigit(f[2]) /\ f[2] # "0"
    \/ Len(f) = 1 /\ IsDigit(f[1]) /\ f[1] # "0"
    \/ Len(f) = 2 /\ f[1] = " " /\ IsDigit(f[2]) /\ f[2] # "0"

Match_m(f) ==
    \/ Len(f) = 2 /\ f[1] = "1" /\ f[2] \in {"0", "1", "2"}
    \/ Len(f) = 2 /\ f[1] = "0" /\ IsDigit(f[2]) /\ f[2] # "0"
    \/ Len(f) = 1 /\ IsDigit(f[1]) /\ f[1] # "0"

Match_Y(f) == Len(f) = 4 /\ AllDigits(f)

\* int() of a matched day field (a leading space is skipped)
IntOfField(f) == IF f[1] = " " THEN IntOf(Tail(f)) ELSE IntOf(f)

ValueError == [t |-> "ValueError"]

\* DateIsValid without the length of the month
DateIsValid_NoMonthLength(y, m, d) ==
    /\ y >= 1 /\ y <= 9999
    /\ m >= 1 /\ m <= 12
    /\ d >= 1 /\ d <= 31

\* datetime(year, month, day, ...): MINYEAR is 1, the day must exist
DateIsValid(y, m, d) ==
    /\ y >= 1 /\ y <= 9999
    /\ m >= 1 /\ m <= 12
    /\ d >= 1 /\ d <= DaysInMonth(y, m)

strptime_dmY(date_str) ==
    LET f == SplitOn(date_str, "-")
    IN  IF Len(f) # 3 THEN ValueError
        ELSE IF ~(Match_d(f[1]) /\ Match_m(f[2]) /\ Match_Y(f[3])) THEN ValueError
        ELSE LET y == IntOf(f[3])
                 m == IntOf(f[2])
                 d == IntOfField(f[1])
             IN  IF DateIsValid(y, m, d)
                 THEN [t |-> "date", year |-> y, month |-> m, day |-> d]
                 ELSE ValueError

----------------------------------------------------------------------------
(* The text literals of jojo.py, character by character.  A pictograph   *)
(* prefix (a short run of non-ASCII characters in the file, none of them  *)
(* reserved by the markup) is one element, written as its name, and so is *)
(* the backtick (BACKTICK), which a TLA+ string cannot hold.              *)

\* line 187
UsageText ==
    << "P", "l", "e", "a", "s", "e", " ", "p", "r", "o", "v", "i", "d", "e",
       " ", "a", " ", "d", "a", "t", "e", " ", "i", "n", " ", "t", "h", "e",
       " ", "f", "o", "r", "m", "a", "t", " ", "D", "D", "-", "M", "M", "-",
       "Y", "Y", "Y", "Y", ".", " ", "E", "x", "a", "m", "p", "l", "e", ":",
       " ", "/", "p", "a", "n", "c", "h", "a", "n", "g", " ", "1", "3", "-",
       "1", "2", "-", "2", "0", "2", "5" >>

\* line 207, up to the echoed input
InvalidDatePrefix ==
    << "CROSSMARK", " ", "I", "n", "v", "a", "l", "i", "d", " ", "d", "a",
       "t", "e", " ", "f", "o", "r", "m", "a", "t", ":", " ", "'" >>

\* line 207, after the echoed input
InvalidDateSuffix ==
    << "'", ".", " ", "P", "l", "e", "a", "s", "e", " ", "u", "s", "e", " ",
       "D", "D", "-", "M", "M", "-", "Y", "Y", "Y", "Y", " ", "(", "e", ".",
       "g", ".", ",", " ", "1", "3", "-", "1", "2", "-", "2", "0", "2", "5",
       ")", "." >>

\* line 212
FetchingPrefix ==
    << "HOURGLASS", " ", "F", "e", "t", "c", "h", "i", "n", "g", " ", "F",
       "u", "l", "l", " ", "P", "a", "n", "c", "h", "a", "n", "g", " ", "d",
       "e", "t", "a", "i", "l", "s", " ", "f", "o", "r", " " >>

FetchingAt ==
    << " ", "a", "t", " " >>

FetchingSuffix ==
    << " ", "(", "T", "h", "e", "n", "i", ",", " ", "I", "S", "T", ")", ".",
       ".", "." >>

\* line 86
ApiRequestFailed ==
    << "A", "P", "I", " ", "r", "e", "q", "u", "e", "s", "t", " ", "f", "a",
       "i", "l", "e", "d", ":", " " >>

\* line 82
HttpErrorLabel ==
    << "H", "T", "T", "P", " ", "E", "r", "r", "o", "r", " " >>

\* line 84
ConnectionErrorLabel ==
    << "C", "o", "n", "n", "e", "c", "t", "i", "o", "n", " ", "E", "r", "r",
       "o", "r", ":", " " >>

\* line 86
ConfirmKeySuffix ==
    << ".", " ", "P", "l", "e", "a", "s", "e", " ", "c", "o", "n", "f", "i",
       "r", "m", " ", "y", "o", "u", "r", " ", "A", "S", "T", "R", "O", "_",
       "A", "P", "I", "_", "K", "E", "Y", " ", "h", "a", "s", " ", "a", "c",
       "c", "e", "s", "s", " ", "t", "o", " ", "t", "h", "e", " ", "'", "/",
       "c", "o", "m", "p", "l", "e", "t", "e", "-", "p", "a", "n", "c", "h",
       "a", "n", "g", "'", " ", "e", "n", "d", "p", "o", "i", "n", "t", "." >>

\* line 89
FailedToDecode ==
    << "F", "a", "i", "l", "e", "d", " ", "t", "o", " ", "d", "e", "c", "o",
       "d", "e", " ", "t", "h", "e", " ", "P", "a", "n", "c", "h", "a", "n",
       "g", " ", "d", "a", "t", "a", " ", "f", "r", "o", "m", " ", "t", "h",
       "e", " ", "A", "P", "I", " ", "r", "e", "s", "p", "o", "n", "s", "e",
       "." >>

\* line 91
UnexpectedError ==
    << "A", "n", " ", "u", "n", "e", "x", "p", "e", "c", "t", "e", "d", " ",
       "e", "r", "r", "o", "r", " ", "o", "c", "c", "u", "r", "r", "e", "d",
       " ", "d", "u", "r", "i", "n", "g", " ", "A", "P", "I", " ", "f", "e",
       "t", "c", "h", "." >>

\* line 106
ErrorLabel ==
    << "CROSSMARK", " ", "*", "E", "r", "r", "o", "r", ":", "*", " " >>

\* line 131
HeaderOpen ==
    << "OM", " ", "*", "P", "a", "n", "c", "h", "a", "n", "g", " ", "D", "e",
       "t", "a", "i", "l", "s", " ", "f", "o", "r", ":", "*", " ", "BACKTICK" >>

HeaderClose ==
    << "BACKTICK", "\n" >>

\* line 132: a raw f-string, so its final \n is a backslash and an n
TimeOpen ==
    << "_", "T", "i", "m", "e", " ", "o", "f", " ", "Q", "u", "e", "r", "y",
       ":", " " >>

TimeClose ==
    << " ", "I", "S", "T", " ", "\\", "|", " ", "T", "h", "e", "n", "i", ",",
       " ", "T", "N", "_", " ", "\\", "n" >>

\* line 133
SunriseOpen ==
    << "_", "S", "u", "n", "r", "i", "s", "e", ":", " " >>

SunsetOpen ==
    << " ", "\\", "|", " ", "S", "u", "n", "s", "e", "t", ":", " " >>

SunClose ==
    << "_", "\n", "\n" >>

\* line 136
TithiTitle ==
    << "*", "MOON", " ", "T", "i", "t", "h", "i", " ", "\\", "(", "L", "u",
       "n", "a", "r", " ", "D", "a", "y", "\\", ")", ":", "*", "\n" >>

\* line 145
NakshatraTitle ==
    << "*", "STAR", " ", "N", "a", "k", "s", "h", "a", "t", "r", "a", " ",
       "\\", "(", "L", "u", "n", "a", "r", " ", "M", "a", "n", "s", "i", "o",
       "n", "\\", ")", ":", "*", "\n" >>

\* line 154
YogaKaranaTitle ==
    << "*", "YOGI", " ", "Y", "o", "g", "a", " ", "&", " ", "K", "a", "r",
       "a", "n", "a", ":", "*", "\n" >>

\* lines 137, 142, 146, 151, 155
FenceLine ==
    << "BACKTICK", "BACKTICK", "BACKTICK", "\n" >>

\* line 160
Fence ==
    << "BACKTICK", "BACKTICK", "BACKTICK" >>

NameLabel ==
    << "N", "a", "m", "e", ":", " " >>

PakshaLabel ==
    << "P", "a", "k", "s", "h", "a", ":", " " >>

CompletesLabel ==
    << "C", "o", "m", "p", "l", "e", "t", "e", "s", ":", " " >>

RemainingLabel ==
    << "R", "e", "m", "a", "i", "n", "i", "n", "g", ":", " " >>

StartsLabel ==
    << "S", "t", "a", "r", "t", "s", ":", " " >>

EndsLabel ==
    << "E", "n", "d", "s", ":", " " >>

YogaLabel ==
    << "Y", "o", "g", "a", ":", " " >>

YogaCompletionLabel ==
    << "Y", "o", "g", "a", " ", "C", "o", "m", "p", "l", "e", "t", "i", "o",
       "n", ":", " " >>

KaranaLabel ==
    << "K", "a", "r", "a", "n", "a", ":", " " >>

KaranaCompletionLabel ==
    << "K", "a", "r", "a", "n", "a", " ", "C", "o", "m", "p", "l", "e", "t",
       "i", "o", "n", ":", " " >>

\* the absence marker
NA ==
    << "N", "/", "A" >>

\* str(None)
PyNone ==
    << "N", "o", "n", "e" >>

PyTrue ==
    << "T", "r", "u", "e" >>

PyFalse ==
    << "F", "a", "l", "s", "e" >>

\* e.__class__.__name__ of requests.exceptions.ConnectionError
ConnectionErrorName ==
    << "C", "o", "n", "n", "e", "c", "t", "i", "o", "n", "E", "r", "r", "o",
       "r" >>

\* e.__class__.__name__ of requests.exceptions.ReadTimeout
ReadTimeoutName ==
    << "R", "e", "a", "d", "T", "i", "m", "e", "o", "u", "t" >>

\* e.__class__.__name__ of requests.exceptions.JSONDecodeError
JSONDecodeErrorName ==
    << "J", "S", "O", "N", "D", "e", "c", "o", "d", "e", "E", "r", "r", "o",
       "r" >>

\* lines 138, 147, 156, 158
OpenParen ==
    << " ", "(" >>

CloseParenNl ==
    << ")", "\n" >>

Newline ==
    << "\n" >>

\* lines 141, 150
PercentNl ==
    << "%", "\n" >>

CommaSpace ==
    << ",", " " >>

\* the string "error" of line 72 as characters
ErrorKeyChars ==
    << "e", "r", "r", "o", "r" >>

\* calendar.day_name, Monday first (strftime %A)
DayNames == <<
    << "M", "o", "n", "d", "a", "y" >>,
    << "T", "u", "e", "s", "d", "a", "y" >>,
    << "W", "e", "d", "n", "e", "s", "d", "a", "y" >>,
    << "T", "h", "u", "r", "s", "d", "a", "y" >>,
    << "F", "r", "i", "d", "a", "y" >>,
    << "S", "a", "t", "u", "r", "d", "a", "y" >>,
    << "S", "u", "n", "d", "a", "y" >> >>

\* calendar.month_name (strftime %B)
MonthNames == <<
    << "J", "a", "n", "u", "a", "r", "y" >>,
    << "F", "e", "b", "r", "u", "a", "r", "y" >>,
    << "M", "a", "r", "c", "h" >>,
    << "A", "p", "r", "i", "l" >>,
    << "M", "a", "y" >>,
    << "J", "u", "n", "e" >>,
    << "J", "u", "l", "y" >>,
    << "A", "u", "g", "u", "s", "t" >>,
    << "S", "e", "p", "t", "e", "m", "b", "e", "r" >>,
    << "O", "c", "t", "o", "b", "e", "r" >>,
    << "N", "o", "v", "e", "m", "b", "e", "r" >>,
    << "D", "e", "c", "e", "m", "b", "e", "r" >> >>

\* calendar.month_abbr (strftime %b)
MonthAbbrs == <<
    << "J", "a", "n" >>,
    << "F", "e", "b" >>,
    << "M", "a", "r" >>,
    << "A", "p", "r" >>,
    << "M", "a", "y" >>,
    << "J", "u", "n" >>,
    << "J", "u", "l" >>,
    << "A", "u", "g" >>,
    << "S", "e", "p" >>,
    << "O", "c", "t" >>,
    << "N", "o", "v" >>,
    << "D", "e", "c" >> >>

----------------------------------------------------------------------------
(* JSON values as response.json() returns them, and Python's view of them *)

Str(cs) == [t |-> "str", v |-> cs]

Num(n) == [t |-> "num", v |-> n]

Null == [t |-> "null"]

Bool(b) == [t |-> "bool", v |-> b]

\* a dict: a function from its keys (strings) to values
Obj(f) == [t |-> "obj", v |-> f]

List(s) == [t |-> "list", v |-> s]

EmptyObj == Obj([k \in {} |-> Null])

\* bool(x)
Truthy(x) ==
    CASE x.t = "str"  -> Len(x.v) > 0
      [] x.t = "num"  -> x.v # 0
      [] x.t = "null" -> FALSE
      [] x.t = "bool" -> x.v
      [] x.t = "obj"  -> DOMAIN x.v # {}
      [] x.t = "list" -> Len(x.v) > 0

\* str(x), which an f-string applies to an interpolated value
PyStr(x) ==
    CASE x.t = "str"  -> x.v
      [] x.t = "num"  -> StrOfNat(x.v)
      [] x.t = "null" -> PyNone
      [] x.t = "bool" -> IF x.v THEN PyTrue ELSE PyFalse

\* d.get(k, default) on a dict d
Get(d, k, default) == IF k \in DOMAIN d.v THEN d.v[k] ELSE default

\* the outcome of evaluating an expression: a value, or an exception raised
Ok(x) == [t |-> "ok", v |-> x]

Raised(name) == [t |-> "raise", exc |-> name]

----------------------------------------------------------------------------
(* str.title() on ASCII text *)

LowerChars == << "a", "b", "c", "d", "e", "f", "g", "h", "i", "j", "k", "l", "m",
                 "n", "o", "p", "q", "r", "s", "t", "u", "v", "w", "x", "y", "z" >>

UpperChars == << "A", "B", "C", "D", "E", "F", "G", "H", "I", "J", "K", "L", "M",
                 "N", "O", "P", "Q", "R", "S", "T", "U", "V", "W", "X", "Y", "Z" >>

IsCased(c) == c \in Range(LowerChars) \/ c \in Range(UpperChars)

IndexIn(tbl, c) == CHOOSE i \in DOMAIN tbl : tbl[i] = c

ToUpper(c) == IF c \in Range(LowerChars) THEN UpperChars[IndexIn(LowerChars, c)] ELSE c

ToLower(c) == IF c \in Range(UpperChars) THEN LowerChars[IndexIn(UpperChars, c)] ELSE c

\* a character is lowered after a cased character and raised otherwise
PyTitle(cs) ==
    [i \in 1..Len(cs) |->
        IF i > 1 /\ IsCased(cs[i - 1]) THEN ToLower(cs[i]) ELSE ToUpper(cs[i])]

----------------------------------------------------------------------------
(* escape_markdown_v2, lines 94-98 *)

\* the character class of line 97
special_chars ==
    { ".", "*", "_", "BACKTICK", "-", "[", "]", "(", ")", "~", ">", "#", "+", "=",
      "|", "{", "}", "!" }

\* re.sub(special_chars, r'\\\1', text): each match is replaced by a backslash
\* and the character matched
escape_markdown_v2(text) ==
    Cat([i \in 1..Len(text) |->
            IF text[i] \in special_chars THEN << "\\", text[i] >> ELSE << text[i] >>])

----------------------------------------------------------------------------
(* datetime.strptime(iso_time, '%Y-%m-%d %H:%M:%S') and strftime *)

\* a one- or two-digit field whose value is at most max
Match_num(f, max) == Len(f) \in {1, 2} /\ AllDigits(f) /\ IntOf(f) <= max

\* the text after the leading spaces
RECURSIVE LStrip(_)
LStrip(s) == IF s # << >> /\ Head(s) = " " THEN LStrip(Tail(s)) ELSE s

\* the index of the first space at or after position 2, or 0
SpaceAfterFirst(s) ==
    IF \E i \in 2..Len(s) : s[i] = " "
    THEN CHOOSE i \in 2..Len(s) : s[i] = " " /\ \A j \in 2..(i - 1) : s[j] # " "
    ELSE 0

\* The regular expression is
\*   (\d\d\d\d)-(1[0-2]|0[1-9]|[1-9])-(3[0-1]|[1-2]\d|0[1-9]|[1-9]| [1-9])\s+
\*   (2[0-3]|[0-1]\d|\d):([0-5]\d|\d):(6[0-1]|[0-5]\d|\d)
\* and datetime refuses second 60 and 61 and a day the month lacks.
strptime_YmdHMS(iso_time) ==
    LET f == SplitOn(iso_time, "-")
    IN  IF Len(f) # 3 THEN ValueError
        ELSE LET rest == f[3]
                 k    == SpaceAfterFirst(rest)
             IN  IF k = 0 THEN ValueError
                 ELSE LET dfield == SubSeq(rest, 1, k - 1)
                          g      == SplitOn(LStrip(SubSeq(rest, k, Len(rest))), ":")
                      IN  IF ~(Match_Y(f[1]) /\ Match_m(f[2]) /\ Match_d(dfield)) THEN ValueError
                          ELSE IF Len(g) # 3 THEN ValueError
                          ELSE IF ~(Match_num(g[1], 23) /\ Match_num(g[2], 59) /\ Match_num(g[3], 59))
                               THEN ValueError
                          ELSE IF ~DateIsValid(IntOf(f[1]), IntOf(f[2]), IntOfField(dfield))
                               THEN ValueError
                          ELSE [t |-> "datetime",
                                year |-> IntOf(f[1]), month |-> IntOf(f[2]),
                                day |-> IntOfField(dfield),
                                hour |-> IntOf(g[1]), minute |-> IntOf(g[2]),
                                second |-> IntOf(g[3])]

\* %I
Hour12(h) == IF h % 12 = 0 THEN 12 ELSE h % 12

\* %p
AmPm(h) == IF h < 12 THEN << "A", "M" >> ELSE << "P", "M" >>

\* dt.strftime('%I:%M:%S %p')
strftime_IMSp(dt) ==
    Pad2(Hour12(dt.hour)) \o << ":" >> \o Pad2(dt.minute) \o << ":" >> \o Pad2(dt.second)
        \o << " " >> \o AmPm(dt.hour)

\* dt.strftime('%I:%M:%S %p, %b %d')
strftime_IMSp_bd(dt) ==
    strftime_IMSp(dt) \o CommaSpace \o MonthAbbrs[dt.month] \o << " " >> \o Pad2(dt.day)

\* dt.strftime("%A, %B %d, %Y")
strftime_ABdY(dt) ==
    DayNames[Weekday(dt.year, dt.month, dt.day) + 1] \o CommaSpace
        \o MonthNames[dt.month] \o << " " >> \o Pad2(dt.day) \o CommaSpace
        \o StrOfNat(dt.year)

\* dt.strftime('%d-%m-%Y')
strftime_dmY(dt) ==
    Pad2(dt.day) \o << "-" >> \o Pad2(dt.month) \o << "-" >> \o StrOfNat(dt.year)

\* dt.strftime('%H:%M:%S')
strftime_HMS(dt) ==
    Pad2(dt.hour) \o << ":" >> \o Pad2(dt.minute) \o << ":" >> \o Pad2(dt.second)

\* format_completion_time without the guard of line 110
format_completion_time_NoGuard(iso_time) ==
    IF iso_time.t # "str" THEN Raised("TypeError")
    ELSE LET dt == strptime_YmdHMS(iso_time.v)
         IN  IF dt = ValueError THEN Ok(NA) ELSE Ok(strftime_IMSp_bd(dt))

\* format_completion_time, lines 109-115: iso_time is what dict.get returned
format_completion_time(iso_time) ==
    IF ~Truthy(iso_time) THEN Ok(NA)
    ELSE IF iso_time.t # "str" THEN Raised("TypeError")
    ELSE LET dt == strptime_YmdHMS(iso_time.v)
         IN  IF dt = ValueError THEN Ok(NA) ELSE Ok(strftime_IMSp_bd(dt))

----------------------------------------------------------------------------
(* Configuration, lines 21-24 *)

LATITUDE == "10.0079"

LONGITUDE == "77.4735"

TIMEZONE == "5.5"

\* the UTC offset of pytz.timezone('Asia/Kolkata'), line 24
IstOffsetHours == 5

IstOffsetMinutes == 30

\* utc_time.astimezone(LOCAL_TIMEZONE), line 195: the clock reading in IST and
\* the number of days the conversion moves the date forward
astimezone_ist(utc) ==
    LET mm == utc.minute + IstOffsetMinutes
        hh == utc.hour + IstOffsetHours + (mm \div 60)
    IN  [hour |-> hh % 24, minute |-> mm % 60, second |-> utc.second,
         dayCarry |-> hh \div 24]

\* build_input_dt with the clock of utc_time, not of local_time_ist
build_input_dt_UtcClock(user_date, utc_time) ==
    [t |-> "datetime",
     year |-> user_date.year, month |-> user_date.month, day |-> user_date.day,
     hour |-> utc_time.hour, minute |-> utc_time.minute, second |-> utc_time.second]

\* datetime(user_date.year, ..., local_time_ist.second), lines 197-204
build_input_dt(user_date, utc_time) ==
    LET local_time_ist == astimezone_ist(utc_time)
    IN  [t |-> "datetime",
         year |-> user_date.year, month |-> user_date.month, day |-> user_date.day,
         hour |-> local_time_ist.hour, minute |-> local_time_ist.minute,
         second |-> local_time_ist.second]

\* build_api_payload, lines 41-54: the JSON object that json.dumps serialises
build_api_payload(dt_obj) ==
    [year |-> dt_obj.year, month |-> dt_obj.month, date |-> dt_obj.day,
     hours |-> dt_obj.hour, minutes |-> dt_obj.minute, seconds |-> dt_obj.second,
     latitude |-> LATITUDE, longitude |-> LONGITUDE, timezone |-> TIMEZONE,
     config |-> [observation_point |-> "topocentric", ayanamsha |-> "lahiri"]]

----------------------------------------------------------------------------
(* fetch_panchang_data, lines 56-91.  The outcome o of requests.request is *)
(*   [t |-> "exc", cls |-> name]              a RequestException, no response *)
(*   [t |-> "resp", status |-> n, body |-> b] a response; b is               *)
(*       [t |-> "text"] (not JSON) or [t |-> "json", v |-> value]            *)

ErrorDict(message) == Obj([k \in {"error"} |-> message])

\* the except RequestException branch, lines 78-86
RequestExceptionResult(status_message) ==
    ErrorDict(Str(ApiRequestFailed \o status_message \o ConfirmKeySuffix))

\* response.raise_for_status(), line 67: raises HTTPError for 4xx and 5xx
raise_for_status_raises(status) == status >= 400 /\ status < 600

\* "error" in panchang_data, line 72: Ok(TRUE/FALSE), or TypeError for a value
\* that is no container
InError(x) ==
    CASE x.t = "obj"  -> Ok("error" \in DOMAIN x.v)
      [] x.t = "list" -> Ok(\E i \in DOMAIN x.v : x.v[i].t = "str" /\ x.v[i].v = ErrorKeyChars)
      [] x.t = "str"  -> Ok(Contains(x.v, ErrorKeyChars))
      [] OTHER        -> Raised("TypeError")

\* lines 69-75, once response.json() has returned x
AfterJson(x) ==
    LET m == InError(x)
    IN  IF m.t = "raise" THEN ErrorDict(Str(UnexpectedError))
        ELSE IF m.v
             THEN (IF x.t = "obj" THEN ErrorDict(x.v["error"])
                   ELSE ErrorDict(Str(UnexpectedError)))   \* x["error"] raises TypeError
        ELSE x

\* fetch_panchang_data without the raise_for_status of line 67
fetch_panchang_data_NoStatusCheck(o, jsonErrIsRequestException) ==
    IF o.t = "exc" THEN RequestExceptionResult(ConnectionErrorLabel \o o.cls)
    ELSE IF o.body.t = "text"
         THEN (IF jsonErrIsRequestException
               THEN RequestExceptionResult(ConnectionErrorLabel \o JSONDecodeErrorName)
               ELSE ErrorDict(Str(FailedToDecode)))
    ELSE AfterJson(o.body.v)

\* jsonErrIsRequestException: whether the JSONDecodeError that response.json()
\* raises is a RequestException (requests >= 2.27) and so is caught at line 78,
\* with e.response None, before the handler of line 88 is tried
fetch_panchang_data(o, jsonErrIsRequestException) ==
    IF o.t = "exc" THEN RequestExceptionResult(ConnectionErrorLabel \o o.cls)
    ELSE IF raise_for_status_raises(o.status)
         THEN RequestExceptionResult(HttpErrorLabel \o StrOfNat(o.status))
    ELSE IF o.body.t = "text"
         THEN (IF jsonErrIsRequestException
               THEN RequestExceptionResult(ConnectionErrorLabel \o JSONDecodeErrorName)
               ELSE ErrorDict(Str(FailedToDecode)))
    ELSE AfterJson(o.body.v)

----------------------------------------------------------------------------
(* format_panchang_table, lines 101-162.  The message is kept as the        *)
(* sequence of the pieces the f-strings concatenate: each piece has the     *)
(* region it lands in ("prose", or "verbatim" between two fences), the      *)
(* field it renders ("" for text of the template) and its text.             *)

Seg(region, field, text) == [region |-> region, field |-> field, text |-> text]

Lit(region, text) == Ok(Seg(region, "", text))

\* an interpolated value: r is Ok(text) or an exception
Interp(region, field, r) == IF r.t = "ok" THEN Ok(Seg(region, field, r.v)) ELSE r

\* x.title(): x is what dict.get returned
TitleOf(x) == IF x.t = "str" THEN Ok(PyTitle(x.v)) ELSE Raised("AttributeError")

\* lines 104-106
ErrorLine(error) ==
    << Seg("prose", "", ErrorLabel), Seg("prose", "error", escape_markdown_v2(error)) >>

\* lines 131-133
HeaderParts(data, dt_obj) ==
    << Lit("prose", HeaderOpen),
       Interp("prose", "query_date", Ok(escape_markdown_v2(strftime_ABdY(dt_obj)))),
       Lit("prose", HeaderClose),
       Lit("prose", TimeOpen),
       Interp("prose", "query_time", Ok(escape_markdown_v2(strftime_IMSp(dt_obj)))),
       Lit("prose", TimeClose),
       Lit("prose", SunriseOpen),
       Interp("prose", "sun_rise", Ok(PyStr(Get(data, "sun_rise", Str(NA))))),
       Lit("prose", SunsetOpen),
       Interp("prose", "sun_set", Ok(PyStr(Get(data, "sun_set", Str(NA))))),
       Lit("prose", SunClose) >>

\* lines 136-142
TithiParts(tithi) ==
    << Lit("prose", TithiTitle),
       Lit("prose", FenceLine),
       Lit("verbatim", NameLabel),
       Interp("verbatim", "tithi.name", TitleOf(Get(tithi, "name", Str(NA)))),
       Lit("verbatim", OpenParen),
       Interp("verbatim", "tithi.number", Ok(PyStr(Get(tithi, "number", Str(NA))))),
       Lit("verbatim", CloseParenNl),
       Lit("verbatim", PakshaLabel),
       Interp("verbatim", "tithi.paksha", TitleOf(Get(tithi, "paksha", Str(NA)))),
       Lit("verbatim", Newline),
       Lit("verbatim", CompletesLabel),
       Interp("verbatim", "tithi.completes_at",
              format_completion_time(Get(tithi, "completes_at", Null))),
       Lit("verbatim", Newline),
       Lit("verbatim", RemainingLabel),
       Interp("verbatim", "tithi.left_precentage",
              Ok(PyStr(Get(tithi, "left_precentage", Str(NA))))),
       Lit("verbatim", PercentNl),
       Lit("prose", FenceLine) >>

\* lines 145-151
NakshatraParts(nakshatra) ==
    << Lit("prose", NakshatraTitle),
       Lit("prose", FenceLine),
       Lit("verbatim", NameLabel),
       Interp("verbatim", "nakshatra.name", TitleOf(Get(nakshatra, "name", Str(NA)))),
       Lit("verbatim", OpenParen),
       Interp("verbatim", "nakshatra.number", Ok(PyStr(Get(nakshatra, "number", Str(NA))))),
       Lit("verbatim", CloseParenNl),
       Lit("verbatim", StartsLabel),
       Interp("verbatim", "nakshatra.starts_at",
              format_completion_time(Get(nakshatra, "starts_at", Null))),
       Lit("verbatim", Newline),
       Lit("verbatim", EndsLabel),
       Interp("verbatim", "nakshatra.ends_at",
              format_completion_time(Get(nakshatra, "ends_at", Null))),
       Lit("verbatim", Newline),
       Lit("verbatim", RemainingLabel),
       Interp("verbatim", "nakshatra.left_percentage",
              Ok(PyStr(Get(nakshatra, "left_percentage", Str(NA))))),
       Lit("verbatim", PercentNl),
       Lit("prose", FenceLine) >>

\* lines 154-160
YogaKaranaParts(yoga1, karana1) ==
    << Lit("prose", YogaKaranaTitle),
       Lit("prose", FenceLine),
       Lit("verbatim", YogaLabel),
       Interp("verbatim", "yoga.name", TitleOf(Get(yoga1, "name", Str(NA)))),
       Lit("verbatim", OpenParen),
       Interp("verbatim", "yoga.number", Ok(PyStr(Get(yoga1, "number", Str(NA))))),
       Lit("verbatim", CloseParenNl),
       Lit("verbatim", YogaCompletionLabel),
       Interp("verbatim", "yoga.completion",
              format_completion_time(Get(yoga1, "completion", Null))),
       Lit("verbatim", Newline),
       Lit("verbatim", KaranaLabel),
       Interp("verbatim", "karana.name", TitleOf(Get(karana1, "name", Str(NA)))),
       Lit("verbatim", OpenParen),
       Interp("verbatim", "karana.number", Ok(PyStr(Get(karana1, "number", Str(NA))))),
       Lit("verbatim", CloseParenNl),
       Lit("verbatim", KaranaCompletionLabel),
       Interp("verbatim", "karana.completion",
              format_completion_time(Get(karana1, "completion", Null))),
       Lit("verbatim", Newline),
       Lit("prose", Fence) >>

\* the pieces in order, or the first exception one of them raised
Assemble(parts) ==
    IF \E i \in DOMAIN parts : parts[i].t = "raise"
    THEN parts[CHOOSE i \in DOMAIN parts :
                   parts[i].t = "raise" /\ \A j \in 1..(i - 1) : parts[j].t = "ok"]
    ELSE Ok([i \in DOMAIN parts |-> parts[i].v])

\* Ok(pieces of the message) or the exception raised.  A .get on a value that
\* is no dict raises AttributeError (lines 104, 118-121, 138-159).
format_panchang_table(data, dt_obj) ==
    IF data.t # "obj" THEN Raised("AttributeError")
    ELSE LET error == Get(data, "error", Null)
         IN  IF Truthy(error)
             THEN (IF error.t = "str" THEN Ok(ErrorLine(error.v))
                   ELSE Raised("TypeError"))      \* re.sub on a value that is no string
             ELSE LET tithi     == Get(data, "tithi", EmptyObj)
                      nakshatra == Get(data, "nakshatra", EmptyObj)
                      yoga      == Get(data, "yoga", EmptyObj)
                      karana    == Get(data, "karana", EmptyObj)
                  IN  IF yoga.t # "obj" \/ karana.t # "obj" THEN Raised("AttributeError")
                      ELSE LET yoga1   == Get(yoga, "1", EmptyObj)
                               karana1 == Get(karana, "1", EmptyObj)
                           IN  IF \E s \in {tithi, nakshatra, yoga1, karana1} : s.t # "obj"
                               THEN Raised("AttributeError")
                               ELSE Assemble(HeaderParts(data, dt_obj)
                                             \o TithiParts(tithi)
                                             \o NakshatraParts(nakshatra)
                                             \o YogaKaranaParts(yoga1, karana1))

----------------------------------------------------------------------------
(* The messages of a turn *)

Reply(method, segs) == [method |-> method, segs |-> segs]

TextOfSegs(segs) == Cat([i \in 1..Len(segs) |-> segs[i].text])

\* the text of a message as it is sent
Text(reply) == TextOfSegs(reply.segs)

\* line 187
UsageReply == Reply("reply_text", << Seg("plain", "", UsageText) >>)

\* line 207
InvalidDateReply(date_str) ==
    Reply("reply_text", << Seg("plain", "", InvalidDatePrefix),
                           Seg("plain", "date_str", date_str),
                           Seg("plain", "", InvalidDateSuffix) >>)

\* line 212
FetchingReply(dt) ==
    Reply("reply_text", << Seg("plain", "", FetchingPrefix),
                           Seg("plain", "input_dt", strftime_dmY(dt)),
                           Seg("plain", "", FetchingAt),
                           Seg("plain", "input_dt", strftime_HMS(dt)),
                           Seg("plain", "", FetchingSuffix) >>)

----------------------------------------------------------------------------
(* Texts the upstream service sends *)

Purnima ==
    << "p", "u", "r", "n", "i", "m", "a" >>

Shukla ==
    << "s", "h", "u", "k", "l", "a" >>

TithiCompletesAt ==
    << "2", "0", "2", "5", "-", "1", "2", "-", "1", "3", " ", "2", "1", ":",
       "1", "4", ":", "0", "7" >>

PurvaPhalguni ==
    << "p", "u", "r", "v", "a", " ", "p", "h", "a", "l", "g", "u", "n", "i" >>

NakshatraStartsAt ==
    << "2", "0", "2", "5", "-", "1", "2", "-", "1", "3", " ", "0", "3", ":",
       "0", "5", ":", "0", "9" >>

NakshatraEndsAt ==
    << "2", "0", "2", "5", "-", "1", "2", "-", "1", "4", " ", "0", "0", ":",
       "3", "0", ":", "0", "0" >>

Siddha ==
    << "s", "i", "d", "d", "h", "a" >>

YogaCompletion ==
    << "2", "0", "2", "5", "-", "1", "2", "-", "1", "3", " ", "1", "2", ":",
       "0", "0", ":", "5", "9" >>

Bava ==
    << "b", "a", "v", "a" >>

KaranaCompletion ==
    << "2", "0", "2", "5", "-", "1", "2", "-", "1", "3", " ", "0", "9", ":",
       "1", "4", ":", "0", "7" >>

SunRise ==
    << "0", "6", ":", "3", "2" >>

SunSet ==
    << "1", "7", ":", "4", "8" >>

\* a sunrise text that holds reserved characters
SunRiseWithReserved ==
    << "0", "6", ".", "3", "2", " ", "(", "a", "p", "p", "r", "o", "x", ".",
       ")" >>

\* a timestamp that is not in the wire format
BadTimestamp ==
    << "1", "3", "/", "1", "2", "/", "2", "0", "2", "5", " ", "9", "p", "m" >>

\* an upstream error message
InvalidApiKey ==
    << "I", "n", "v", "a", "l", "i", "d", " ", "A", "P", "I", " ", "k", "e",
       "y", "." >>

\* an upstream error message
QuotaExceeded ==
    << "q", "u", "o", "t", "a", "_", "e", "x", "c", "e", "e", "d", "e", "d",
       "!" >>

StatusOk ==
    << "o", "k" >>

\* a JSON string body that holds the text error
AnErrorOccurred ==
    << "a", "n", " ", "e", "r", "r", "o", "r", " ", "o", "c", "c", "u", "r",
       "r", "e", "d" >>

Amavasya ==
    << "a", "m", "a", "v", "a", "s", "y", "a" >>

Krishna ==
    << "k", "r", "i", "s", "h", "n", "a" >>

WrappedCompletesAt ==
    << "2", "0", "2", "5", "-", "1", "2", "-", "1", "9", " ", "1", "8", ":",
       "3", "1", ":", "0", "2" >>

\* json.dumps of WrappedTithi: the text of a single-wrapped output field
SingleWrappedText ==
    << "{", "\"", "n", "a", "m", "e", "\"", ":", " ", "\"", "a", "m", "a",
       "v", "a", "s", "y", "a", "\"", ",", " ", "\"", "n", "u", "m", "b",
       "e", "r", "\"", ":", " ", "3", "0", ",", " ", "\"", "p", "a", "k",
       "s", "h", "a", "\"", ":", " ", "\"", "k", "r", "i", "s", "h", "n",
       "a", "\"", ",", " ", "\"", "c", "o", "m", "p", "l", "e", "t", "e",
       "s", "_", "a", "t", "\"", ":", " ", "\"", "2", "0", "2", "5", "-",
       "1", "2", "-", "1", "9", " ", "1", "8", ":", "3", "1", ":", "0", "2",
       "\"", ",", " ", "\"", "l", "e", "f", "t", "_", "p", "r", "e", "c",
       "e", "n", "t", "a", "g", "e", "\"", ":", " ", "1", "2", "}" >>

----------------------------------------------------------------------------
(* The inputs of a turn: the arguments of the command and the arrival time *)

DayFields == { << "1", "3" >>, << "3", "1" >>, << "2", "9" >>, << "3", "2" >>, << "a", "b" >> }

MonthFields == { << "1", "2" >>, << "0", "2" >>, << "1", "3" >> }

YearFields == { << "2", "0", "2", "5" >>, << "2", "0", "2", "4" >>, << "2", "5" >> }

Separators == { "-", "/" }

\* three fields and two separators
ThreeFieldStrs ==
    { d \o << s1 >> \o m \o << s2 >> \o y :
        d \in DayFields, m \in MonthFields, y \in YearFields,
        s1 \in Separators, s2 \in Separators }

\* other field counts, an empty field, no separator, a month of one digit
OtherStrs ==
    { << "1", "3", "-", "1", "2" >>,
      << "1", "3", "-", "1", "2", "-", "2", "0", "2", "5", "-", "0", "1" >>,
      << "1", "3", "-", "-", "2", "0", "2", "5" >>,
      << "1", "3", "1", "2", "2", "0", "2", "5" >>,
      << "t", "o", "d", "a", "y" >>,
      << "0", "0", "-", "1", "2", "-", "2", "0", "2", "5" >>,
      << "1", "3", "-", "0", "0", "-", "2", "0", "2", "5" >>,
      << "1", "3", "-", "1", "2", "-", "0", "0", "0", "0" >>,
      << "3", "-", "2", "-", "2", "0", "2", "5" >>,
      << "2", "0", "2", "5", "-", "1", "2", "-", "1", "3" >> }

DateStrs == ThreeFieldStrs \cup OtherStrs

\* context.args: no argument, one argument, or a second argument after it
ArgLists ==
    { << >> } \cup { << s >> : s \in DateStrs }
        \cup { << << "1", "3", "-", "1", "2", "-", "2", "0", "2", "5" >>, << "n", "o", "w" >> >> }

Clock(h, m, s) == [hour |-> h, minute |-> m, second |-> s]

\* update.message.date (UTC): readings whose IST time stays in the day, crosses
\* midnight, and carries a minute into the hour
Arrivals == { Clock(0, 0, 0), Clock(6, 29, 7), Clock(18, 30, 0), Clock(23, 59, 59) }

----------------------------------------------------------------------------
(* What the upstream service answers *)

TithiFull ==
    [name |-> Str(Purnima), number |-> Num(15), paksha |-> Str(Shukla),
     completes_at |-> Str(TithiCompletesAt), left_precentage |-> Num(42)]

NakshatraFull ==
    [name |-> Str(PurvaPhalguni), number |-> Num(4),
     starts_at |-> Str(NakshatraStartsAt), ends_at |-> Str(NakshatraEndsAt),
     left_percentage |-> Num(37)]

YogaFull == [name |-> Str(Siddha), number |-> Num(21), completion |-> Str(YogaCompletion)]

KaranaFull == [name |-> Str(Bava), number |-> Num(1), completion |-> Str(KaranaCompletion)]

SunFull == [sun_rise |-> Str(SunRise), sun_set |-> Str(SunSet)]

\* the name of each sub-field, as the pieces of the message carry it
TithiFields ==
    [name |-> "tithi.name", number |-> "tithi.number", paksha |-> "tithi.paksha",
     completes_at |-> "tithi.completes_at", left_precentage |-> "tithi.left_precentage"]

NakshatraFields ==
    [name |-> "nakshatra.name", number |-> "nakshatra.number",
     starts_at |-> "nakshatra.starts_at", ends_at |-> "nakshatra.ends_at",
     left_percentage |-> "nakshatra.left_percentage"]

YogaFields == [name |-> "yoga.name", number |-> "yoga.number", completion |-> "yoga.completion"]

KaranaFields ==
    [name |-> "karana.name", number |-> "karana.number", completion |-> "karana.completion"]

SunFields == [sun_rise |-> "sun_rise", sun_set |-> "sun_set"]

FieldsOf(names) == { names[k] : k \in DOMAIN names }

SubFields ==
    FieldsOf(TithiFields) \cup FieldsOf(NakshatraFields) \cup FieldsOf(YogaFields)
        \cup FieldsOf(KaranaFields) \cup FieldsOf(SunFields)

TimestampFields ==
    { "tithi.completes_at", "nakshatra.starts_at", "nakshatra.ends_at",
      "yoga.completion", "karana.completion" }

\* the dict full without the sub-fields of missing; a missing timestamp is
\* null when nullTimestamps, and absent otherwise
Without(full, names, missing, nullTimestamps) ==
    LET kept == { k \in DOMAIN full :
                    names[k] \notin missing
                        \/ (nullTimestamps /\ names[k] \in TimestampFields) }
    IN  [k \in kept |-> IF names[k] \in missing THEN Null ELSE full[k]]

\* the flat "complete panchang" response with the sub-fields of missing left out
FlatBody(missing, nullTimestamps) ==
    LET sun == Without(SunFull, SunFields, missing, nullTimestamps)
        top == [tithi |-> Obj(Without(TithiFull, TithiFields, missing, nullTimestamps)),
                nakshatra |-> Obj(Without(NakshatraFull, NakshatraFields, missing, nullTimestamps)),
                yoga |-> Obj([k \in {"1"} |->
                              Obj(Without(YogaFull, YogaFields, missing, nullTimestamps))]),
                karana |-> Obj([k \in {"1"} |->
                                Obj(Without(KaranaFull, KaranaFields, missing, nullTimestamps))])]
    IN  Obj([k \in DOMAIN top \cup DOMAIN sun |-> IF k \in DOMAIN top THEN top[k] ELSE sun[k]])

FlatFull == FlatBody({}, FALSE)

\* the flat response with one top-level entry replaced
FlatWith(key, value) == Obj([k \in DOMAIN FlatFull.v |-> IF k = key THEN value ELSE FlatFull.v[k]])

\* the tithi-only object of the older API versions, and its wrappings
WrappedTithi ==
    [name |-> Str(Amavasya), number |-> Num(30), paksha |-> Str(Krishna),
     completes_at |-> Str(WrappedCompletesAt), left_precentage |-> Num(12)]

\* json.dumps of a string: quoted, with quotes and backslashes escaped
JsonEscape(cs) ==
    Cat([i \in 1..Len(cs) |->
            IF cs[i] \in { "\"", "\\" } THEN << "\\", cs[i] >> ELSE << cs[i] >>])

JsonQuote(cs) == << "\"" >> \o JsonEscape(cs) \o << "\"" >>

DoubleWrappedText == JsonQuote(SingleWrappedText)

SingleWrappedBody == Obj([k \in {"output"} |-> Str(SingleWrappedText)])

DoubleWrappedBody == Obj([k \in {"output"} |-> Str(DoubleWrappedText)])

\* objects with a top-level error key
ErrorBodies ==
    { Obj([k \in {"error"} |-> e]) :
        e \in { Str(InvalidApiKey), Str(QuotaExceeded), Str(<< >>), Null, Num(0), Num(42) } }
      \cup { Obj([error |-> Str(InvalidApiKey), tithi |-> Obj(TithiFull)]) }

\* objects of neither recognised shape
UnrecognisedBodies ==
    { EmptyObj,
      Obj([k \in {"status"} |-> Str(StatusOk)]),
      Obj([k \in {"tithi"} |-> Obj(TithiFull)]) }

\* flat responses with a value of an unexpected kind
OddFlatBodies ==
    { FlatWith("sun_rise", Str(SunRiseWithReserved)),
      FlatWith("tithi", Obj([TithiFull EXCEPT !.completes_at = Str(BadTimestamp)])),
      FlatWith("tithi", Obj([TithiFull EXCEPT !.completes_at = Num(1765660447)])),
      FlatWith("tithi", Obj([TithiFull EXCEPT !.name = Null])),
      FlatWith("yoga", Null) }

\* JSON documents that are no object
NonObjectBodies ==
    { Num(5), Null, List(<< >>), List(<< Str(ErrorKeyChars) >>),
      Str(AnErrorOccurred), Str(StatusOk) }

TextBody == [t |-> "text"]

JsonBody(x) == [t |-> "json", v |-> x]

Response(status, body) == [t |-> "resp", status |-> status, body |-> body]

TransportFailure(cls) == [t |-> "exc", cls |-> cls]

\* the flat responses with at most MaxMissing sub-fields missing, or all
MaxMissing == 2

MissingSets ==
    { m \in SUBSET SubFields : Cardinality(m) <= MaxMissing } \cup { SubFields }

FlatBodies == { FlatBody(m, n) : m \in MissingSets, n \in BOOLEAN }

OkBodies ==
    { TextBody }
      \cup { JsonBody(x) :
               x \in { FlatFull, FlatBody(SubFields, FALSE), FlatBody(TimestampFields, TRUE),
                       SingleWrappedBody, DoubleWrappedBody }
                     \cup ErrorBodies \cup UnrecognisedBodies \cup OddFlatBodies
                     \cup NonObjectBodies }

OtherStatuses == { 201, 304, 403, 404, 500 }

Upstream ==
    { TransportFailure(c) : c \in { ConnectionErrorName, ReadTimeoutName } }
      \cup { Response(200, b) : b \in OkBodies }
      \cup { Response(s, b) : s \in OtherStatuses,
                              b \in { TextBody, JsonBody(FlatFull),
                                      JsonBody(Obj([k \in {"error"} |-> Str(InvalidApiKey)])) } }

FlatUpstream == { Response(200, JsonBody(b)) : b \in FlatBodies }

----------------------------------------------------------------------------
(* The turn: panchang_command, lines 181-219, cut at its awaits and at the  *)
(* upstream call                                                           *)

Init ==
    /\ pc = "idle"
    /\ args = << >>
    /\ arrival = Clock(0, 0, 0)
    /\ input_dt = NoValue
    /\ payload = NoValue
    /\ upstream = NoValue
    /\ panchang_data = NoValue
    /\ replies = << >>
    /\ httpCalls = 0
    /\ requestsJsonErrorIsRequestException \in BOOLEAN

\* the dispatcher hands an update to panchang_command, line 257
Receive(a, d) ==
    /\ pc = "idle"
    /\ pc' = "handling"
    /\ args' = a
    /\ arrival' = d
    /\ UNCHANGED << input_dt, payload, upstream, panchang_data, replies, httpCalls,
                    requestsJsonErrorIsRequestException >>

\* lines 186-188
ReplyUsage ==
    /\ pc = "handling"
    /\ args = << >>
    /\ replies' = Append(replies, UsageReply)
    /\ pc' = "done"
    /\ UNCHANGED << args, arrival, input_dt, payload, upstream, panchang_data, httpCalls,
                    requestsJsonErrorIsRequestException >>

\* lines 190-193 and 206-208
ReplyInvalidDate ==
    /\ pc = "handling"
    /\ args # << >>
    /\ strptime_dmY(args[1]) = ValueError
    /\ replies' = Append(replies, InvalidDateReply(args[1]))
    /\ pc' = "done"
    /\ UNCHANGED << args, arrival, input_dt, payload, upstream, panchang_data, httpCalls,
                    requestsJsonErrorIsRequestException >>

\* lines 190-204 and 210-212
BuildAndNotify ==
    /\ pc = "handling"
    /\ args # << >>
    /\ strptime_dmY(args[1]) # ValueError
    /\ LET dt == build_input_dt(strptime_dmY(args[1]), arrival)
       IN  /\ input_dt' = dt
           /\ payload' = build_api_payload(dt)
           /\ replies' = Append(replies, FetchingReply(dt))
    /\ pc' = "fetching"
    /\ UNCHANGED << args, arrival, upstream, panchang_data, httpCalls,
                    requestsJsonErrorIsRequestException >>

\* line 213, with o what requests.request produces
Fetch(o) ==
    /\ pc = "fetching"
    /\ upstream' = o
    /\ httpCalls' = httpCalls + 1
    /\ panchang_data' = fetch_panchang_data(o, requestsJsonErrorIsRequestException)
    /\ pc' = "formatting"
    /\ UNCHANGED << args, arrival, input_dt, payload, replies,
                    requestsJsonErrorIsRequestException >>

\* lines 215-219 with the message sent twice
FormatAndReply_Twice ==
    /\ pc = "formatting"
    /\ LET r == format_panchang_table(panchang_data, input_dt)
       IN  /\ r.t = "ok"
           /\ replies' = replies \o << Reply("reply_markdown_v2", r.v),
                                       Reply("reply_markdown_v2", r.v) >>
    /\ pc' = "done"
    /\ UNCHANGED << args, arrival, input_dt, payload, upstream, panchang_data, httpCalls,
                    requestsJsonErrorIsRequestException >>

\* lines 215-219
FormatAndReply ==
    /\ pc = "formatting"
    /\ LET r == format_panchang_table(panchang_data, input_dt)
       IN  /\ r.t = "ok"
           /\ replies' = Append(replies, Reply("reply_markdown_v2", r.v))
    /\ pc' = "done"
    /\ UNCHANGED << args, arrival, input_dt, payload, upstream, panchang_data, httpCalls,
                    requestsJsonErrorIsRequestException >>

\* line 215 raises: the exception leaves panchang_command and no reply is sent
FormatRaises ==
    /\ pc = "formatting"
    /\ format_panchang_table(panchang_data, input_dt).t = "raise"
    /\ pc' = "crashed"
    /\ UNCHANGED << args, arrival, input_dt, payload, upstream, panchang_data, replies,
                    httpCalls, requestsJsonErrorIsRequestException >>

\* panchang_command returns, or its exception reaches the dispatcher: the turn
\* is over and its locals are gone
EndTurn ==
    /\ pc \in { "done", "crashed" }
    /\ pc' = "idle"
    /\ args' = << >>
    /\ arrival' = Clock(0, 0, 0)
    /\ input_dt' = NoValue
    /\ payload' = NoValue
    /\ upstream' = NoValue
    /\ panchang_data' = NoValue
    /\ replies' = << >>
    /\ httpCalls' = 0
    /\ UNCHANGED requestsJsonErrorIsRequestException

ReceiveAny == \E a \in ArgLists, d \in Arrivals : Receive(a, d)

FetchAny == \E o \in Upstream : Fetch(o)

Next ==
    \/ ReceiveAny
    \/ ReplyUsage
    \/ ReplyInvalidDate
    \/ BuildAndNotify
    \/ FetchAny
    \/ FormatAndReply
    \/ FormatRaises
    \/ EndTurn

Spec == Init /\ [][Next]_vars

\* the turns on 13-12-2025 that the upstream answers with a flat response
ReceiveOne ==
    Receive(<< << "1", "3", "-", "1", "2", "-", "2", "0", "2", "5" >> >>, Clock(15, 44, 7))

FetchFlat == \E o \in FlatUpstream : Fetch(o)

NextFlat ==
    \/ ReceiveOne
    \/ BuildAndNotify
    \/ FetchFlat
    \/ FormatAndReply
    \/ EndTurn

SpecFlat == Init /\ [][NextFlat]_vars

----------------------------------------------------------------------------
(* Reading a turn *)

TurnOver == pc \in { "done", "crashed" }

\* the last message sent in the turn
FinalReply == replies[Len(replies)]

MarkupReplies == { i \in DOMAIN replies : replies[i].method = "reply_markdown_v2" }

\* a message that holds a verbatim block holds a fence
HasFence(reply) == Contains(Text(reply), Fence)

\* the message is the single line of the error path
IsErrorLine(reply) ==
    /\ reply.method = "reply_markdown_v2"
    /\ Len(reply.segs) = 2
    /\ reply.segs[1].text = ErrorLabel
    /\ reply.segs[2].field = "error"
    /\ ~HasFence(reply)

HasField(reply, f) == \E i \in DOMAIN reply.segs : reply.segs[i].field = f

\* the text rendered for field f
FieldText(reply, f) == reply.segs[CHOOSE i \in DOMAIN reply.segs : reply.segs[i].field = f].text

\* the upstream answered with a response that raise_for_status lets through
\* and whose body is the JSON object it is asked about
AnsweredJsonObject ==
    /\ upstream.t = "resp"
    /\ upstream.status \in 200..299
    /\ upstream.body.t = "json"
    /\ upstream.body.v.t = "obj"

----------------------------------------------------------------------------
(* C1: every /panchang turn runs to completion and emits exactly one reply *)
(* message, never zero and never more than one.                           *)

----------------------------------------------------------------------------
(* C2: a malformed or calendrically invalid date argument is answered by  *)
(* the invalid-date-format message, which echoes the argument, and the    *)
(* turn makes no HTTP request.                                            *)

\* the lengths of the months of a common year
C2_MonthLengths == << 31, 28, 31, 30, 31, 30, 31, 31, 30, 31, 30, 31 >>

C2_FebruaryHas29(y) == (y % 4 = 0 /\ y % 100 # 0) \/ y % 400 = 0

\* the claim's cases, read off the argument: the wrong number of fields (a
\* wrong separator leaves fewer than three fields between hyphens), a field
\* that is no number, a day or month out of range, a day the month lacks
C2_Malformed(s) ==
    LET f == SplitOn(s, "-")
    IN  \/ Len(f) # 3
        \/ \E i \in 1..3 : f[i] = << >> \/ ~AllDigits(f[i])
        \/ IntOf(f[1]) \notin 1..31
        \/ IntOf(f[2]) \notin 1..12
        \/ IntOf(f[1]) > (IF IntOf(f[2]) = 2 /\ C2_FebruaryHas29(IntOf(f[3]))
                          THEN 29 ELSE C2_MonthLengths[IntOf(f[2])])

\* C2: a malformed or calendrically invalid argument makes no HTTP request and
\* is answered by the one invalid-date-format message, which echoes it.
C2_InvalidDateRejected ==
    (pc # "idle" /\ args # << >> /\ C2_Malformed(args[1])) =>
        /\ pc \in { "handling", "done" }
        /\ httpCalls = 0
        /\ upstream = NoValue
        /\ pc = "done" =>
             /\ Len(replies) = 1
             /\ replies[1].method = "reply_text"
             /\ Text(replies[1]) = InvalidDatePrefix \o args[1] \o InvalidDateSuffix

\* 31-02-2025 was answered
C2_Witness ==
    /\ pc = "done"
    /\ args = << << "3", "1", "-", "0", "2", "-", "2", "0", "2", "5" >> >>
    /\ Len(replies) = 1
    /\ httpCalls = 0

----------------------------------------------------------------------------
(* C3: when the body is a JSON object with a top-level error key,         *)
(* whatever its value, fetch_panchang_data returns the explicit error and *)
(* the turn ends with the single escaped Error line carrying it, with no  *)
(* verbatim block.                                                        *)
C3_ExplicitErrorRendered ==
    (AnsweredJsonObject /\ "error" \in DOMAIN upstream.body.v.v) =>
        /\ panchang_data = ErrorDict(upstream.body.v.v["error"])
        /\ pc # "crashed"
        /\ pc = "done" =>
             /\ IsErrorLine(FinalReply)
             /\ FinalReply.segs[2].text = escape_markdown_v2(PyStr(upstream.body.v.v["error"]))

----------------------------------------------------------------------------
(* C4: for every non-2xx status the upstream returns, fetch_panchang_data *)
(* does not raise and yields an HTTP-status error whose message holds the *)
(* status code, and the final message holds the code and no verbatim      *)
(* block.                                                                 *)

C4_HttpStatusError(status) ==
    /\ panchang_data.t = "obj"
    /\ DOMAIN panchang_data.v = { "error" }
    /\ panchang_data.v["error"].t = "str"
    /\ Contains(panchang_data.v["error"].v, HttpErrorLabel \o StrOfNat(status))
    /\ pc # "crashed"
    /\ pc = "done" =>
         /\ Len(replies) = 2
         /\ IsErrorLine(FinalReply)
         /\ Contains(Text(FinalReply), StrOfNat(status))

\* C4 as written: every status outside 200..299
C4_EveryNon2xxStatus ==
    (upstream.t = "resp" /\ upstream.status \notin 200..299) =>
        C4_HttpStatusError(upstream.status)

\* C4 as amended: every 4xx and 5xx status (the statuses for which
\* raise_for_status raises) yields the HTTP-status error with its code, and
\* the final message holds the code and no verbatim block.
C4_Every4xx5xxStatus ==
    (upstream.t = "resp" /\ upstream.status \in 400..599) =>
        C4_HttpStatusError(upstream.status)

\* a 403 was answered by the Error line
C4_Witness ==
    /\ pc = "done"
    /\ upstream.t = "resp"
    /\ upstream.status = 403
    /\ Contains(Text(FinalReply), << "4", "0", "3" >>)

----------------------------------------------------------------------------
(* C5: a 2xx response whose body is not valid JSON is classified as the   *)
(* Decode error (the "Failed to decode" result), not as the connection    *)
(* error nor as the catch-all.                                            *)
C5_DecodeErrorClassified ==
    (/\ upstream.t = "resp"
     /\ upstream.status \in 200..299
     /\ upstream.body.t = "text") =>
        panchang_data = ErrorDict(Str(FailedToDecode))

----------------------------------------------------------------------------
(* C6: in every message sent as markup, every string derived from the     *)
(* user or the upstream that lands outside a verbatim block (error        *)
(* message, query date, query time, sunrise, sunset) went through         *)
(* escape_markdown_v2 once, so no reserved character is left unescaped.   *)

\* every reserved character follows a backslash
C6_NoBareReserved(cs) ==
    \A i \in DOMAIN cs : cs[i] \in special_chars => (i > 1 /\ cs[i - 1] = "\\")

\* the string the field renders, before any escaping
C6_Raw(f) ==
    CASE f = "error"      -> panchang_data.v["error"].v
      [] f = "query_date" -> strftime_ABdY(input_dt)
      [] f = "query_time" -> strftime_IMSp(input_dt)
      [] f = "sun_rise"   -> PyStr(Get(panchang_data, "sun_rise", Str(NA)))
      [] f = "sun_set"    -> PyStr(Get(panchang_data, "sun_set", Str(NA)))

\* C6: every value rendered outside the verbatim blocks of a markup message is
\* the escaped form of its string and leaves no reserved character bare.
C6_ProseValuesEscaped ==
    \A i \in MarkupReplies :
        \A j \in DOMAIN replies[i].segs :
            LET seg == replies[i].segs[j]
            IN  (seg.region = "prose" /\ seg.field # "") =>
                    /\ seg.text = escape_markdown_v2(C6_Raw(seg.field))
                    /\ C6_NoBareReserved(seg.text)

----------------------------------------------------------------------------
(* C7: an output field that holds the JSON text of the tithi object, once *)
(* or twice encoded, is decoded and rendered with the tithi fields        *)
(* carrying the decoded values and every nakshatra, yoga and karana field *)
(* "N/A".                                                                 *)

\* WrappedTithi as it is to be displayed
C7_Display(f) ==
    CASE f = "tithi.name" -> << "A", "m", "a", "v", "a", "s", "y", "a" >>
      [] f = "tithi.number" -> << "3", "0" >>
      [] f = "tithi.paksha" -> << "K", "r", "i", "s", "h", "n", "a" >>
      [] f = "tithi.completes_at" ->
            << "0", "6", ":", "3", "1", ":", "0", "2", " ", "P", "M", ",", " ",
               "D", "e", "c", " ", "1", "9" >>
      [] f = "tithi.left_precentage" -> << "1", "2" >>
      [] OTHER -> NA

\* C7: a turn answered by a wrapped output field renders the decoded tithi
\* values and "N/A" for every nakshatra, yoga and karana field.
C7_WrappedTithiRendered ==
    (/\ TurnOver
     /\ AnsweredJsonObject
     /\ upstream.body.v \in { SingleWrappedBody, DoubleWrappedBody }) =>
        /\ pc = "done"
        /\ \A f \in SubFields \ FieldsOf(SunFields) :
               HasField(FinalReply, f) /\ FieldText(FinalReply, f) = C7_Display(f)

----------------------------------------------------------------------------
(* C8: a decoded payload of neither recognised shape (no output string,   *)
(* not all of tithi, nakshatra, yoga, karana) ends in the error path and  *)
(* never in almanac verbatim blocks.                                      *)

C8_Unrecognised(body) ==
    /\ "error" \notin DOMAIN body.v
    /\ ~("output" \in DOMAIN body.v /\ body.v["output"].t = "str")
    /\ ~({ "tithi", "nakshatra", "yoga", "karana" } \subseteq DOMAIN body.v)

\* C8: a turn answered by an object of neither shape ends with the Error line.
C8_UnrecognisedIsError ==
    (TurnOver /\ AnsweredJsonObject /\ C8_Unrecognised(upstream.body.v)) =>
        /\ pc = "done"
        /\ IsErrorLine(FinalReply)

----------------------------------------------------------------------------
(* C9: for a flat response in which any sub-fields are missing (absent,   *)
(* or null for the timestamps), format_panchang_table does not raise and  *)
(* returns the three-block message with "N/A" for exactly the missing     *)
(* values and the present values rendered unchanged.                      *)

\* the value of sub-field f in a flat response, Null when it is absent
C9_Value(body, f) ==
    LET In(d, names) ==
            LET k == CHOOSE k \in DOMAIN names : names[k] = f
            IN  IF k \in DOMAIN d THEN d[k] ELSE Null
    IN  IF f \in FieldsOf(TithiFields) THEN In(body.v["tithi"].v, TithiFields)
        ELSE IF f \in FieldsOf(NakshatraFields) THEN In(body.v["nakshatra"].v, NakshatraFields)
        ELSE IF f \in FieldsOf(YogaFields) THEN In(body.v["yoga"].v["1"].v, YogaFields)
        ELSE IF f \in FieldsOf(KaranaFields) THEN In(body.v["karana"].v["1"].v, KaranaFields)
        ELSE In(body.v, SunFields)

C9_Missing(body, f) == C9_Value(body, f).t = "null"

\* the turn was answered by the flat response
C9_FlatAnswered == AnsweredJsonObject /\ pc \in { "formatting", "done" }

\* format_panchang_table returns, and what it returns has three blocks
C9_ThreeBlocks ==
    /\ pc = "formatting" => format_panchang_table(panchang_data, input_dt).t = "ok"
    /\ pc = "done" =>
         /\ FinalReply.method = "reply_markdown_v2"
         /\ CountOf(Text(FinalReply), Fence) = 6

\* C9 as written: three blocks, "N/A" for exactly the missing values, and a
\* present value rendered as it was sent
C9_PresentUnchanged ==
    C9_FlatAnswered =>
        /\ C9_ThreeBlocks
        /\ pc = "done" =>
             \A f \in SubFields :
                 FieldText(FinalReply, f) =
                     IF C9_Missing(upstream.body.v, f) THEN NA
                     ELSE PyStr(C9_Value(upstream.body.v, f))

C9_Display(f) ==
    CASE f = "tithi.name" -> << "P", "u", "r", "n", "i", "m", "a" >>
      [] f = "tithi.number" -> << "1", "5" >>
      [] f = "tithi.paksha" -> << "S", "h", "u", "k", "l", "a" >>
      [] f = "tithi.completes_at" -> << "0", "9", ":", "1", "4", ":", "0", "7", " ", "P", "M", ",", " ", "D", "e", "c", " ", "1", "3" >>
      [] f = "tithi.left_precentage" -> << "4", "2" >>
      [] f = "nakshatra.name" -> << "P", "u", "r", "v", "a", " ", "P", "h", "a", "l", "g", "u", "n", "i" >>
      [] f = "nakshatra.number" -> << "4" >>
      [] f = "nakshatra.starts_at" -> << "0", "3", ":", "0", "5", ":", "0", "9", " ", "A", "M", ",", " ", "D", "e", "c", " ", "1", "3" >>
      [] f = "nakshatra.ends_at" -> << "1", "2", ":", "3", "0", ":", "0", "0", " ", "A", "M", ",", " ", "D", "e", "c", " ", "1", "4" >>
      [] f = "nakshatra.left_percentage" -> << "3", "7" >>
      [] f = "yoga.name" -> << "S", "i", "d", "d", "h", "a" >>
      [] f = "yoga.number" -> << "2", "1" >>
      [] f = "yoga.completion" -> << "1", "2", ":", "0", "0", ":", "5", "9", " ", "P", "M", ",", " ", "D", "e", "c", " ", "1", "3" >>
      [] f = "karana.name" -> << "B", "a", "v", "a" >>
      [] f = "karana.number" -> << "1" >>
      [] f = "karana.completion" -> << "0", "9", ":", "1", "4", ":", "0", "7", " ", "A", "M", ",", " ", "D", "e", "c", " ", "1", "3" >>
      [] f = "sun_rise" -> << "0", "6", ":", "3", "2" >>
      [] f = "sun_set" -> << "1", "7", ":", "4", "8" >>

\* C9 as amended: format_panchang_table does not raise and returns the
\* three-block message with "N/A" for exactly the missing values and the
\* present values in their display form: names and paksha title-cased,
\* timestamps as 12-hour time with month and day, numbers and sunrise and
\* sunset as sent.
C9_PresentDisplayed ==
    C9_FlatAnswered =>
        /\ C9_ThreeBlocks
        /\ pc = "done" =>
             \A f \in SubFields :
                 FieldText(FinalReply, f) =
                     IF C9_Missing(upstream.body.v, f) THEN NA ELSE C9_Display(f)

\* a response with a null timestamp and an absent name was rendered
C9_Witness ==
    /\ pc = "done"
    /\ AnsweredJsonObject
    /\ upstream.body.v = FlatBody({ "tithi.completes_at", "yoga.name" }, TRUE)
    /\ FieldText(FinalReply, "tithi.completes_at") = NA
    /\ FieldText(FinalReply, "yoga.name") = NA
    /\ FieldText(FinalReply, "tithi.name") = C9_Display("tithi.name")

----------------------------------------------------------------------------
(* C10: for a valid DD-MM-YYYY argument and any arrival time, the payload *)
(* has year, month and date of the argument (also when the conversion to  *)
(* UTC+5:30 crosses midnight) and hours, minutes and seconds of the       *)
(* arrival time's clock reading in UTC+5:30.                              *)

\* C10: the payload's date is the argument's and its time is the arrival time
\* moved by 5 h 30 min (19800 s), modulo a day.
C10_PayloadInstant ==
    payload # NoValue =>
        LET f   == SplitOn(args[1], "-")
            utc == arrival.hour * 3600 + arrival.minute * 60 + arrival.second
        IN  /\ payload.date = IntOf(f[1])
            /\ payload.month = IntOf(f[2])
            /\ payload.year = IntOf(f[3])
            /\ payload.hours \in 0..23
            /\ payload.minutes \in 0..59
            /\ payload.seconds \in 0..59
            /\ payload.hours * 3600 + payload.minutes * 60 + payload.seconds
                   = (utc + 19800) % 86400

\* 23:59:59 UTC on 31-12-2025: 05:29:59 in IST, a day later, and the date kept
C10_Witness ==
    /\ payload # NoValue
    /\ arrival = Clock(23, 59, 59)
    /\ payload.date = 31 /\ payload.month = 12 /\ payload.year = 2025
    /\ payload.hours = 5 /\ payload.minutes = 29 /\ payload.seconds = 59

====
